---- MODULE Spec2Model ----
(***************************************************************************)
(* Model of the minesweeper game: the tile map (src/game/tilemap.rs), the  *)
(* board (src/game/board.rs) and the game plugin's systems and state       *)
(* machine (src/game/mod.rs).                                              *)
(*                                                                         *)
(* A position is a pair <<x, y>>.  An Option<T> is a sequence of length at *)
(* most one: <<>> is None, <<v>> is Some(v).  Option<Entity> fields of a   *)
(* tile (cover, flag) are kept as BOOLEAN is_some().                       *)
(***************************************************************************)
EXTENDS Integers, Sequences, FiniteSets, TLC

\* Bounds of the model: the largest grid (columns, rows, tiles), the largest
\* bomb count and the largest number of mouse events the handlers read in one
\* frame.
MaxX == 4
MaxY == 2
MaxTiles == 6
MaxBombs == 1
MaxEvents == 1

None == <<>>
Some(v) == <<v>>

---------------------------------------------------------------------------
\* tilemap.rs

NEIGHBOR_OFFSETS ==
  << <<-1, -1>>, <<0, -1>>, <<1, -1>>, <<-1, 0>>,
     <<1, 0>>, <<-1, 1>>, <<0, 1>>, <<1, 1>> >>

Empty == [kind |-> "Empty", count |-> 0]
Bomb == [kind |-> "Bomb", count |-> 0]
Number(n) == [kind |-> "Number", count |-> n]

Tile_new(tile_type) == [tile_type |-> tile_type, cover |-> FALSE, flag |-> FALSE]

is_bomb(tile) == tile.tile_type = Bomb

\* The positions of a grid of the given size (rows of size.x tiles, size.y rows).
Positions(size) == (0 .. size[1] - 1) \X (0 .. size[2] - 1)

empty(size) ==
  [size |-> size, bomb_count |-> 0,
   grid |-> [p \in Positions(size) |-> Tile_new(Empty)]]

get_tile(tm, pos) == IF pos \in DOMAIN tm.grid THEN Some(tm.grid[pos]) ELSE None

\* Variants of get_neighbors: the four tiles sharing a side only; the first
\* offset left out.
get_neighbors_Orthogonal(tm, pos) ==
  LET cand == [i \in 1 .. Len(NEIGHBOR_OFFSETS) |->
                 <<pos[1] + NEIGHBOR_OFFSETS[i][1], pos[2] + NEIGHBOR_OFFSETS[i][2]>>]
      keep(n) == /\ ~(n[1] < 0 \/ n[1] >= tm.size[1] \/ n[2] < 0 \/ n[2] >= tm.size[2])
                 /\ (n[1] = pos[1] \/ n[2] = pos[2])
  IN SelectSeq(cand, keep)

get_neighbors_SkipsFirst(tm, pos) ==
  LET cand == [i \in 1 .. Len(NEIGHBOR_OFFSETS) - 1 |->
                 <<pos[1] + NEIGHBOR_OFFSETS[i + 1][1],
                   pos[2] + NEIGHBOR_OFFSETS[i + 1][2]>>]
      keep(n) == ~(n[1] < 0 \/ n[1] >= tm.size[1] \/ n[2] < 0 \/ n[2] >= tm.size[2])
  IN SelectSeq(cand, keep)

get_neighbors(tm, pos) ==
  LET cand == [i \in 1 .. Len(NEIGHBOR_OFFSETS) |->
                 <<pos[1] + NEIGHBOR_OFFSETS[i][1], pos[2] + NEIGHBOR_OFFSETS[i][2]>>]
      keep(n) == ~(n[1] < 0 \/ n[1] >= tm.size[1] \/ n[2] < 0 \/ n[2] >= tm.size[2])
  IN SelectSeq(cand, keep)

bomb_count(tm, pos) ==
  LET bomb(n) == is_bomb(tm.grid[n])
  IN Len(SelectSeq(get_neighbors(tm, pos), bomb))

\* A variant of set_bombs that numbers a tile only from two bombs on.
set_bombs_CountAboveOne(tm, bombs) ==
  LET placed == [tm EXCEPT !.bomb_count = Cardinality(bombs),
                           !.grid = [p \in DOMAIN tm.grid |->
                                       IF p \in bombs
                                       THEN [tm.grid[p] EXCEPT !.tile_type = Bomb]
                                       ELSE tm.grid[p]]]
  IN [placed EXCEPT !.grid =
        [p \in DOMAIN tm.grid |->
           IF is_bomb(placed.grid[p]) THEN placed.grid[p]
           ELSE IF bomb_count(placed, p) > 1
                THEN [placed.grid[p] EXCEPT !.tile_type = Number(bomb_count(placed, p))]
                ELSE placed.grid[p]]]

\* set_bombs after its assertion: `bombs` is the set of the first bomb_count
\* positions of the shuffled position list.
set_bombs(tm, bombs) ==
  LET placed == [tm EXCEPT !.bomb_count = Cardinality(bombs),
                           !.grid = [p \in DOMAIN tm.grid |->
                                       IF p \in bombs
                                       THEN [tm.grid[p] EXCEPT !.tile_type = Bomb]
                                       ELSE tm.grid[p]]]
  IN [placed EXCEPT !.grid =
        [p \in DOMAIN tm.grid |->
           IF is_bomb(placed.grid[p]) THEN placed.grid[p]
           ELSE IF bomb_count(placed, p) > 0
                THEN [placed.grid[p] EXCEPT !.tile_type = Number(bomb_count(placed, p))]
                ELSE placed.grid[p]]]

\* A variant of find_empty_tile that takes any tile that is not a Bomb.
EmptyTiles_NotBomb(tm) == {p \in DOMAIN tm.grid : ~is_bomb(tm.grid[p])}

\* The tiles find_empty_tile chooses among.
EmptyTiles(tm) == {p \in DOMAIN tm.grid : tm.grid[p].tile_type = Empty}

---------------------------------------------------------------------------
\* board.rs

\* A variant of all_revealed without the exemption of the bomb tiles.
all_revealed_NoBombs(board) ==
  \A p \in DOMAIN board.tile_map.grid : ~board.tile_map.grid[p].cover

all_revealed(board) ==
  \A p \in DOMAIN board.tile_map.grid :
    ~board.tile_map.grid[p].cover \/ is_bomb(board.tile_map.grid[p])

---------------------------------------------------------------------------
\* mod.rs: the systems as functions of the tile map and the events they read

\* handle_reveal_event, first loop, one event: what the event at `position`
\* adds to the queue.  A covered tile is queued itself; an uncovered Number
\* tile with as many flagged neighbours as its count queues its neighbours.
\* Variants of Enqueue: the count compared with the covered neighbours, and
\* a chord that also fires with more flags than the count.
Enqueue_CoveredCount(tm, position) ==
  LET covered(n) == tm.grid[n].cover
  IN IF get_tile(tm, position) = None THEN <<>>
     ELSE IF tm.grid[position].cover THEN <<position>>
     ELSE IF /\ tm.grid[position].tile_type.kind = "Number"
             /\ tm.grid[position].tile_type.count =
                  Len(SelectSeq(get_neighbors(tm, position), covered))
          THEN get_neighbors(tm, position)
          ELSE <<>>

Enqueue_AtLeast(tm, position) ==
  LET flagged(n) == tm.grid[n].flag
  IN IF get_tile(tm, position) = None THEN <<>>
     ELSE IF tm.grid[position].cover THEN <<position>>
     ELSE IF /\ tm.grid[position].tile_type.kind = "Number"
             /\ tm.grid[position].tile_type.count <=
                  Len(SelectSeq(get_neighbors(tm, position), flagged))
          THEN get_neighbors(tm, position)
          ELSE <<>>

Enqueue(tm, position) ==
  LET flagged(n) == tm.grid[n].flag
  IN IF get_tile(tm, position) = None THEN <<>>
     ELSE IF tm.grid[position].cover THEN <<position>>
     ELSE IF /\ tm.grid[position].tile_type.kind = "Number"
             /\ tm.grid[position].tile_type.count =
                  Len(SelectSeq(get_neighbors(tm, position), flagged))
          THEN get_neighbors(tm, position)
          ELSE <<>>

\* The first loop: the tile map is not changed while the events are read.
RECURSIVE RevealQueue(_, _, _)
RevealQueue(tm, evs, queue) ==
  IF evs = <<>> THEN queue
  ELSE RevealQueue(tm, Tail(evs), queue \o Enqueue(tm, Head(evs)))

\* handle_reveal_event, second loop, one position popped for the first time:
\* the tile map it leaves, the positions it pushes, whether it took the
\* tile's cover and whether the Bomb arm ran.
Skipped(tm) == [tile_map |-> tm, push |-> <<>>, took |-> FALSE, bomb |-> FALSE]

\* Variants of Visit: a flagged tile is not skipped; the Bomb arm pushes the
\* neighbours as the Empty arm does.
Visit_IgnoresFlag(tm, position) ==
  IF get_tile(tm, position) = None THEN Skipped(tm)
  ELSE IF ~tm.grid[position].cover THEN Skipped(tm)
  ELSE LET taken == [tm EXCEPT !.grid[position].cover = FALSE]
           kind == tm.grid[position].tile_type.kind
       IN [tile_map |-> taken,
           push |-> IF kind = "Empty" THEN get_neighbors(taken, position) ELSE <<>>,
           took |-> TRUE,
           bomb |-> kind = "Bomb"]

Visit_BombExpands(tm, position) ==
  IF get_tile(tm, position) = None THEN Skipped(tm)
  ELSE IF tm.grid[position].flag THEN Skipped(tm)
  ELSE IF ~tm.grid[position].cover THEN Skipped(tm)
  ELSE LET taken == [tm EXCEPT !.grid[position].cover = FALSE]
           kind == tm.grid[position].tile_type.kind
       IN [tile_map |-> taken,
           push |-> IF kind # "Number" THEN get_neighbors(taken, position) ELSE <<>>,
           took |-> TRUE,
           bomb |-> kind = "Bomb"]

\* A variant of Visit: the Number arm pushes the neighbours as the Empty arm does.
Visit_NumberExpands(tm, position) ==
  IF get_tile(tm, position) = None THEN Skipped(tm)
  ELSE IF tm.grid[position].flag THEN Skipped(tm)
  ELSE IF ~tm.grid[position].cover THEN Skipped(tm)
  ELSE LET taken == [tm EXCEPT !.grid[position].cover = FALSE]
           kind == tm.grid[position].tile_type.kind
       IN [tile_map |-> taken,
           push |-> IF kind \in {"Empty", "Number"} THEN get_neighbors(taken, position)
                    ELSE <<>>,
           took |-> TRUE,
           bomb |-> kind = "Bomb"]

Visit(tm, position) ==
  IF get_tile(tm, position) = None THEN Skipped(tm)
  ELSE IF tm.grid[position].flag THEN Skipped(tm)
  ELSE IF ~tm.grid[position].cover THEN Skipped(tm)
  ELSE LET taken == [tm EXCEPT !.grid[position].cover = FALSE]
           kind == tm.grid[position].tile_type.kind
       IN [tile_map |-> taken,
           push |-> IF kind = "Empty" THEN get_neighbors(taken, position) ELSE <<>>,
           took |-> TRUE,
           bomb |-> kind = "Bomb"]

\* A variant of the second loop without the `revealed` set: a position is
\* visited every time it is popped, and recorded as uncovered unless it is
\* outside the grid or flagged.
RECURSIVE RevealLoop_Revisits(_, _, _, _)
RevealLoop_Revisits(tm, queue, revealed, out) ==
  IF queue = <<>>
  THEN [tile_map |-> tm, uncovered |-> out.uncovered, bombs |-> out.bombs]
  ELSE LET position == Head(queue)
           v == Visit(tm, position)
           seen == get_tile(tm, position) # None /\ ~tm.grid[position].flag
       IN RevealLoop_Revisits(v.tile_map, Tail(queue) \o v.push, revealed,
                              [uncovered |-> IF seen THEN Append(out.uncovered, position)
                                             ELSE out.uncovered,
                               bombs |-> IF v.bomb THEN Append(out.bombs, position)
                                         ELSE out.bombs])

\* The second loop (while let Some(position) = queue.pop_front()); a position
\* already in `revealed` is skipped.  The loop has no exit but the empty queue.
\* out.uncovered lists the positions whose cover was taken, in order;
\* out.bombs lists the positions where the Bomb arm ran.
RECURSIVE RevealLoop(_, _, _, _)
RevealLoop(tm, queue, revealed, out) ==
  IF queue = <<>>
  THEN [tile_map |-> tm, uncovered |-> out.uncovered, bombs |-> out.bombs]
  ELSE LET position == Head(queue)
           v == Visit(tm, position)
       IN IF position \in revealed THEN RevealLoop(tm, Tail(queue), revealed, out)
          ELSE RevealLoop(v.tile_map, Tail(queue) \o v.push, revealed \cup {position},
                          [uncovered |-> IF v.took THEN Append(out.uncovered, position)
                                         ELSE out.uncovered,
                           bombs |-> IF v.bomb THEN Append(out.bombs, position)
                                     ELSE out.bombs])

handle_reveal_event(tm, evs) ==
  RevealLoop(tm, RevealQueue(tm, evs, <<>>), {}, [uncovered |-> <<>>, bombs |-> <<>>])

\* handle_flag_event, one event: an uncovered tile is left alone, a covered
\* tile loses its flag or gets one.
\* Variants of Toggle: without the test of the cover; a position outside the
\* grid taken for the nearest tile; setting a flag only.
Toggle_IgnoresCover(tm, position) ==
  IF get_tile(tm, position) = None THEN tm
  ELSE [tm EXCEPT !.grid[position].flag = ~tm.grid[position].flag]

Toggle_ClampsPosition(tm, position) ==
  LET low(a, b) == IF a < b THEN a ELSE b
      inside == <<low(position[1], tm.size[1] - 1), low(position[2], tm.size[2] - 1)>>
  IN IF ~tm.grid[inside].cover THEN tm
     ELSE [tm EXCEPT !.grid[inside].flag = ~tm.grid[inside].flag]

Toggle_OnlySets(tm, position) ==
  IF get_tile(tm, position) = None THEN tm
  ELSE IF ~tm.grid[position].cover THEN tm
  ELSE [tm EXCEPT !.grid[position].flag = TRUE]

Toggle(tm, position) ==
  IF get_tile(tm, position) = None THEN tm
  ELSE IF ~tm.grid[position].cover THEN tm
  ELSE [tm EXCEPT !.grid[position].flag = ~tm.grid[position].flag]

\* handle_flag_event: every event is applied to the tile map left by the ones before.
RECURSIVE handle_flag_event(_, _)
handle_flag_event(tm, evs) ==
  IF evs = <<>> THEN tm
  ELSE handle_flag_event(Toggle(tm, Head(evs)), Tail(evs))

\* Variants of game_finished: the tiles that are not bombs get a cover; a
\* flagged bomb keeps its cover.
game_finished_CoversRest(tm) ==
  [tm EXCEPT !.grid = [p \in DOMAIN tm.grid |->
                         [tm.grid[p] EXCEPT !.cover = ~is_bomb(tm.grid[p])]]]

game_finished_SkipsFlagged(tm) ==
  [tm EXCEPT !.grid = [p \in DOMAIN tm.grid |->
                         IF is_bomb(tm.grid[p]) /\ ~tm.grid[p].flag
                         THEN [tm.grid[p] EXCEPT !.cover = FALSE]
                         ELSE tm.grid[p]]]

\* game_finished: the cover of every bomb tile is taken.
game_finished(tm) ==
  [tm EXCEPT !.grid = [p \in DOMAIN tm.grid |->
                         IF is_bomb(tm.grid[p])
                         THEN [tm.grid[p] EXCEPT !.cover = FALSE]
                         ELSE tm.grid[p]]]

\* start_game: the tile map built for the options, with `bombs` the shuffle's
\* choice; every tile gets its cover (tile.cover = Some(cover_entity)).  Safe
\* start replaces the cover of the chosen tile by a new cover entity, so the
\* tile still has a cover.
start_game(options, bombs) ==
  LET seeded == set_bombs(empty(options.size), bombs)
  IN [seeded EXCEPT !.grid = [p \in DOMAIN seeded.grid |->
                                [seeded.grid[p] EXCEPT !.cover = TRUE]]]

---------------------------------------------------------------------------
\* mod.rs: the game as a state machine, one frame at a time

VARIABLES
  game_options,  \* the GameOptions resource: size, bomb_count, safe_start
  board,         \* Option<Board>: the Board resource and its tile map
  game_state,    \* State<GameState>
  next_state,    \* NextState<GameState>: the state set for the next transition
  game_result,   \* Option<GameResult>
  ran,           \* the Update systems that have acted in the current frame
  read,          \* the number of events the handlers have read in the current frame
  cmds,          \* the commands queued in the current frame, applied at its end
  panicked,      \* a system has panicked: the program has stopped
  last           \* the last handler call: its events, the board before it, its result

vars == <<game_options, board, game_state, next_state, game_result, ran, read,
          cmds, panicked, last>>

GameStates == {"Options", "Playing", "Paused", "Finished", "Inactive"}

\* The option values of the model: what the row, column and bomb-count buttons
\* of the options screen reach, within the bounds.  The buttons saturate at 0,
\* and nothing ties the bomb count to the size.
OptionValues ==
  {o \in [size : (0 .. MaxX) \X (0 .. MaxY), bomb_count : 0 .. MaxBombs,
          safe_start : BOOLEAN] :
     o.size[1] * o.size[2] <= MaxTiles}

\* The events one run of a handler reads: what has been sent since the
\* handler's last run.  Board::in_bounds takes the far edges of the board as
\* inside, so that mouse_to_tile yields positions up to one past the last
\* column and the last row.
EventPositions(b) == Positions(<<b.tile_map.size[1] + 1, b.tile_map.size[2] + 1>>)

EventBatches(b, max) ==
  UNION {[1 .. n -> EventPositions(b)] : n \in 1 .. max}

\* struct GameResult(bool): a tuple struct of one field.
GameResult(won) == <<won>>

\* The deferred commands the systems queue.
InsertResult(won) == <<"insert_resource", GameResult(won)>>
RemoveBoard == <<"remove_resource", "Board">>

\* What a run of handle_reveal_event leaves in NextState and in the command
\* queue: a bomb uncovered sets Finished and queues GameResult(false).
RevealOutcome(r, state, queued) ==
  [next_state |-> IF r.bombs # <<>> THEN Some("Finished") ELSE state,
   cmds |-> IF r.bombs # <<>> THEN queued \cup {InsertResult(FALSE)} ELSE queued]

Init ==
  /\ game_options \in OptionValues
  /\ board = None
  /\ game_state = "Inactive"
  /\ next_state = None
  /\ game_result = None
  /\ ran = {}
  /\ read = 0
  /\ cmds = {}
  /\ panicked = FALSE
  /\ last = None

\* menu.rs sets AppState::Game; OnEnter(AppState::Game) runs start_setup.
start_setup ==
  /\ ~panicked /\ game_state = "Inactive" /\ next_state = None
  /\ next_state' = IF board # None THEN Some("Playing") ELSE Some("Options")
  /\ UNCHANGED <<game_options, board, game_state, game_result, ran, read, cmds, panicked, last>>

\* options.rs button_actions, SettingsButtonAction::StartGame.
StartGame ==
  /\ ~panicked /\ game_state = "Options" /\ next_state = None
  /\ cmds' = cmds \cup {RemoveBoard}
  /\ next_state' = Some("Playing")
  /\ UNCHANGED <<game_options, board, game_state, game_result, ran, read, panicked, last>>

\* The Update systems of GameState::Playing.  Each runs once in a frame, in
\* any order; a run that reads no event (no key) changes nothing and is left out.
InUpdate(sys) == ~panicked /\ game_state = "Playing" /\ sys \notin ran

handle_keyboard_input ==
  /\ InUpdate("handle_keyboard_input")
  /\ next_state' = Some("Paused")
  /\ ran' = ran \cup {"handle_keyboard_input"}
  /\ UNCHANGED <<game_options, board, game_state, game_result, read, cmds, panicked, last>>

HandleRevealEvent ==
  /\ InUpdate("handle_reveal_event")
  /\ \E evs \in EventBatches(board[1], MaxEvents - read) :
       LET r == handle_reveal_event(board[1].tile_map, evs)
       IN /\ board' = Some([board[1] EXCEPT !.tile_map = r.tile_map])
          /\ cmds' = RevealOutcome(r, next_state, cmds).cmds
          /\ next_state' = RevealOutcome(r, next_state, cmds).next_state
          /\ read' = read + Len(evs)
  /\ ran' = ran \cup {"handle_reveal_event"}
  /\ UNCHANGED <<game_options, game_state, game_result, panicked, last>>

HandleFlagEvent ==
  /\ InUpdate("handle_flag_event")
  /\ \E evs \in EventBatches(board[1], MaxEvents - read) :
       /\ board' = Some([board[1] EXCEPT
                           !.tile_map = handle_flag_event(board[1].tile_map, evs)])
       /\ read' = read + Len(evs)
  /\ ran' = ran \cup {"handle_flag_event"}
  /\ UNCHANGED <<game_options, game_state, next_state, game_result, cmds, panicked, last>>

check_finished ==
  /\ InUpdate("check_finished")
  /\ cmds' = IF all_revealed(board[1]) THEN cmds \cup {InsertResult(TRUE)} ELSE cmds
  /\ next_state' = IF all_revealed(board[1]) THEN Some("Finished") ELSE next_state
  /\ ran' = ran \cup {"check_finished"}
  /\ UNCHANGED <<game_options, board, game_state, game_result, read, panicked, last>>

\* button_actions on the pause and the finished overlay.
OverlayButtons == [Paused |-> {"Continue", "ReturnToMenu"},
                   Finished |-> {"Restart", "ReturnToMenu"}]

\* A variant of button_actions: Restart leaves the Board resource in place.
button_actions_KeepsBoard ==
  /\ ~panicked /\ game_state \in {"Paused", "Finished"} /\ next_state = None
  /\ \E action \in OverlayButtons[game_state] :
       /\ cmds' = IF action = "ReturnToMenu" THEN cmds \cup {RemoveBoard} ELSE cmds
       /\ next_state' = Some(CASE action = "Restart" -> "Playing"
                               [] action = "ReturnToMenu" -> "Inactive"
                               [] action = "Continue" -> "Playing")
  /\ UNCHANGED <<game_options, board, game_state, game_result, ran, read, panicked, last>>

\* A variant of button_actions: Continue removes the Board resource as
\* Restart does.
button_actions_ContinueRemoves ==
  /\ ~panicked /\ game_state \in {"Paused", "Finished"} /\ next_state = None
  /\ \E action \in OverlayButtons[game_state] :
       /\ cmds' = cmds \cup {RemoveBoard}
       /\ next_state' = Some(CASE action = "Restart" -> "Playing"
                               [] action = "ReturnToMenu" -> "Inactive"
                               [] action = "Continue" -> "Playing")
  /\ UNCHANGED <<game_options, board, game_state, game_result, ran, read, panicked, last>>

button_actions ==
  /\ ~panicked /\ game_state \in {"Paused", "Finished"} /\ next_state = None
  /\ \E action \in OverlayButtons[game_state] :
       /\ cmds' = IF action = "Continue" THEN cmds ELSE cmds \cup {RemoveBoard}
       /\ next_state' = Some(CASE action = "Restart" -> "Playing"
                               [] action = "ReturnToMenu" -> "Inactive"
                               [] action = "Continue" -> "Playing")
  /\ UNCHANGED <<game_options, board, game_state, game_result, ran, read, panicked, last>>

\* The end of a frame and the StateTransition schedule of the next one.  The
\* queued commands are applied in the order of the systems in the schedule,
\* which the code leaves open: of two GameResult inserts either may be last.
ResultsAfter ==
  IF \E won \in BOOLEAN : InsertResult(won) \in cmds
  THEN {Some(GameResult(won)) : won \in {w \in BOOLEAN : InsertResult(w) \in cmds}}
  ELSE {game_result}

BoardAfter == IF RemoveBoard \in cmds THEN None ELSE board

FrameDone ==
  /\ ~panicked
  /\ IF game_state = "Playing" THEN "check_finished" \in ran ELSE next_state # None

\* apply_state_transition: nothing is entered.
EndFrame ==
  /\ FrameDone
  /\ next_state \in {None, Some(game_state)}
  /\ game_result' \in ResultsAfter
  /\ board' = BoardAfter
  /\ next_state' = None /\ ran' = {} /\ read' = 0 /\ cmds' = {}
  /\ UNCHANGED <<game_options, game_state, panicked, last>>

Entering(state) == FrameDone /\ next_state = Some(state) /\ game_state # state

\* A variant of EnterPlaying: start_game without the early return, a new
\* tile map is seeded on every entry of Playing.
EnterPlaying_Reseeds ==
  /\ Entering("Playing")
  /\ game_result' \in ResultsAfter
  /\ next_state' = None /\ ran' = {} /\ read' = 0 /\ cmds' = {}
  /\ game_state' = "Playing"
  /\ \/ /\ game_options.bomb_count > game_options.size[1] * game_options.size[2]
        /\ board' = None /\ panicked' = TRUE
     \/ /\ game_options.bomb_count <= game_options.size[1] * game_options.size[2]
        /\ \E bombs \in SUBSET Positions(game_options.size) :
             /\ Cardinality(bombs) = game_options.bomb_count
             /\ LET tm == start_game(game_options, bombs)
                IN IF game_options.safe_start /\ EmptyTiles(tm) = {}
                   THEN board' = None /\ panicked' = TRUE
                   ELSE board' = Some([tile_map |-> tm]) /\ panicked' = FALSE
  /\ UNCHANGED <<game_options, last>>

\* OnEnter(GameState::Playing): start_game.
EnterPlaying ==
  /\ Entering("Playing")
  /\ game_result' \in ResultsAfter
  /\ next_state' = None /\ ran' = {} /\ read' = 0 /\ cmds' = {}
  /\ game_state' = "Playing"
  /\ IF BoardAfter # None
     THEN board' = BoardAfter /\ panicked' = FALSE
     ELSE \/ /\ game_options.bomb_count > game_options.size[1] * game_options.size[2]
             /\ board' = None /\ panicked' = TRUE
          \/ /\ game_options.bomb_count <= game_options.size[1] * game_options.size[2]
             /\ \E bombs \in SUBSET Positions(game_options.size) :
                  /\ Cardinality(bombs) = game_options.bomb_count
                  /\ LET tm == start_game(game_options, bombs)
                     IN IF game_options.safe_start /\ EmptyTiles(tm) = {}
                        THEN board' = None /\ panicked' = TRUE
                        ELSE board' = Some([tile_map |-> tm]) /\ panicked' = FALSE
  /\ UNCHANGED <<game_options, last>>

\* OnEnter(GameState::Finished): game_finished.
EnterFinished ==
  /\ Entering("Finished")
  /\ game_result' \in ResultsAfter
  /\ board' = Some([board[1] EXCEPT !.tile_map = game_finished(board[1].tile_map)])
  /\ game_state' = "Finished"
  /\ next_state' = None /\ ran' = {} /\ read' = 0 /\ cmds' = {}
  /\ UNCHANGED <<game_options, panicked, last>>

\* OnEnter(GameState::Paused): pause; entering Options or Inactive runs no
\* system that touches the game.
EnterOther ==
  /\ \E state \in {"Paused", "Options", "Inactive"} :
       /\ Entering(state)
       /\ game_state' = state
  /\ game_result' \in ResultsAfter
  /\ board' = BoardAfter
  /\ next_state' = None /\ ran' = {} /\ read' = 0 /\ cmds' = {}
  /\ UNCHANGED <<game_options, panicked, last>>

Next ==
  \/ start_setup
  \/ StartGame
  \/ handle_keyboard_input
  \/ HandleRevealEvent
  \/ HandleFlagEvent
  \/ check_finished
  \/ button_actions
  \/ EndFrame
  \/ EnterPlaying
  \/ EnterFinished
  \/ EnterOther

Spec == Init /\ [][Next]_vars

---------------------------------------------------------------------------
\* The handlers of a game in GameState::Playing, one run at a time: every step
\* is a frame in which one handler reads a batch of events.  `last` records
\* the run: the handler, its events, the tile map before it, and what it did.
\* A game is played on after a bomb is uncovered when handle_keyboard_input
\* sets Paused over Finished in the same frame.

Started(options) ==
  {start_game(options, bombs) :
     bombs \in {bs \in SUBSET Positions(options.size) :
                  Cardinality(bs) = options.bomb_count}}

\* Safe start leaves the cover of every tile in place, so the games started
\* with it are among those started without it.
HandlersInit ==
  /\ game_options \in {o \in OptionValues :
                         /\ ~o.safe_start
                         /\ o.size[1] * o.size[2] > 0
                         /\ o.bomb_count <= o.size[1] * o.size[2]}
  /\ board \in {Some([tile_map |-> tm]) : tm \in Started(game_options)}
  /\ game_state = "Playing"
  /\ next_state = None
  /\ game_result = None
  /\ ran = {}
  /\ read = 0
  /\ cmds = {}
  /\ panicked = FALSE
  /\ last = None

RevealCall ==
  /\ \E evs \in EventBatches(board[1], MaxEvents) :
       LET r == handle_reveal_event(board[1].tile_map, evs)
       IN /\ board' = Some([board[1] EXCEPT !.tile_map = r.tile_map])
          /\ cmds' = RevealOutcome(r, None, {}).cmds
          /\ next_state' = RevealOutcome(r, None, {}).next_state
          /\ last' = Some([sys |-> "handle_reveal_event", evs |-> evs,
                           pre |-> board[1].tile_map,
                           uncovered |-> r.uncovered, bombs |-> r.bombs])
  /\ UNCHANGED <<game_options, game_state, game_result, ran, read, panicked>>

FlagCall ==
  /\ \E evs \in EventBatches(board[1], MaxEvents) :
       /\ board' = Some([board[1] EXCEPT
                           !.tile_map = handle_flag_event(board[1].tile_map, evs)])
       /\ last' = Some([sys |-> "handle_flag_event", evs |-> evs,
                        pre |-> board[1].tile_map,
                        uncovered |-> <<>>, bombs |-> <<>>])
  /\ cmds' = {}
  /\ next_state' = None
  /\ UNCHANGED <<game_options, game_state, game_result, ran, read, panicked>>

HandlersNext ==
  \/ RevealCall
  \/ FlagCall

SpecHandlers == HandlersInit /\ [][HandlersNext]_vars

---------------------------------------------------------------------------
\* The reveals of one game: the 3x3 board whose one bomb set_bombs has put
\* at (2, 2), and handle_reveal_event run on it time after time.
ScenarioOptions == [size |-> <<3, 3>>, bomb_count |-> 1, safe_start |-> FALSE]

ScenarioInit ==
  /\ game_options = ScenarioOptions
  /\ board = Some([tile_map |-> start_game(ScenarioOptions, {<<2, 2>>})])
  /\ game_state = "Playing"
  /\ next_state = None
  /\ game_result = None
  /\ ran = {}
  /\ read = 0
  /\ cmds = {}
  /\ panicked = FALSE
  /\ last = None

SpecScenario == ScenarioInit /\ [][RevealCall]_vars

---------------------------------------------------------------------------
\* Seeding a freshly created tile map: TileMap::empty, then set_bombs once.

SeedMaxX == 3
SeedMaxY == 3

SeedInit ==
  /\ game_options \in {o \in [size : (0 .. SeedMaxX) \X (0 .. SeedMaxY),
                              bomb_count : 0 .. SeedMaxX * SeedMaxY + 1,
                              safe_start : {FALSE}] :
                         o.bomb_count <= o.size[1] * o.size[2] + 1}
  /\ board = Some([tile_map |-> empty(game_options.size)])
  /\ game_state = "Inactive"
  /\ next_state = None
  /\ game_result = None
  /\ ran = {}
  /\ read = 0
  /\ cmds = {}
  /\ panicked = FALSE
  /\ last = None

\* A variant of SetBombs: no assertion, a bomb count above the number of
\* tiles fills the grid.
SetBombs_FillsGrid ==
  /\ ~panicked /\ last = None
  /\ last' = Some([sys |-> "set_bombs", evs |-> <<>>, pre |-> board[1].tile_map,
                   uncovered |-> <<>>, bombs |-> <<>>])
  /\ panicked' = FALSE
  /\ \E bombs \in SUBSET Positions(game_options.size) :
       /\ \/ Cardinality(bombs) = game_options.bomb_count
          \/ /\ game_options.bomb_count > game_options.size[1] * game_options.size[2]
             /\ bombs = Positions(game_options.size)
       /\ board' = Some([tile_map |-> set_bombs(board[1].tile_map, bombs)])
  /\ UNCHANGED <<game_options, game_state, next_state, game_result, ran, read, cmds>>

\* set_bombs: the assertion, then the placement and the counts.
SetBombs ==
  /\ ~panicked /\ last = None
  /\ last' = Some([sys |-> "set_bombs", evs |-> <<>>, pre |-> board[1].tile_map,
                   uncovered |-> <<>>, bombs |-> <<>>])
  /\ IF game_options.bomb_count > game_options.size[1] * game_options.size[2]
     THEN panicked' = TRUE /\ board' = board
     ELSE /\ panicked' = FALSE
          /\ \E bombs \in SUBSET Positions(game_options.size) :
               /\ Cardinality(bombs) = game_options.bomb_count
               /\ board' = Some([tile_map |-> set_bombs(board[1].tile_map, bombs)])
  /\ UNCHANGED <<game_options, game_state, next_state, game_result, ran, read, cmds>>

SpecSeed == SeedInit /\ [][SetBombs]_vars

---------------------------------------------------------------------------
\* The vocabulary of the properties, stated on the grid itself: adjacency as
\* a relation on positions, the bombs around a position, and the cells a
\* cascade reaches from a set of cells through the cells that expand.

Abs(n) == IF n < 0 THEN -n ELSE n

Adjacent(p, q) == p # q /\ Abs(p[1] - q[1]) <= 1 /\ Abs(p[2] - q[2]) <= 1

Around(tm, p) == {q \in DOMAIN tm.grid : Adjacent(p, q)}

BombsAround(tm, p) == Cardinality({q \in Around(tm, p) : tm.grid[q].tile_type = Bomb})

FlagsAround(tm, p) == Cardinality({q \in Around(tm, p) : tm.grid[q].flag})

RECURSIVE Reach(_, _, _)
Reach(tm, from, through) ==
  LET more == from \cup {q \in DOMAIN tm.grid :
                           \E e \in from \cap through : Adjacent(e, q)}
  IN IF more = from THEN from ELSE Reach(tm, more, through)

\* The last handler call, when it read the one event `at`, on a tile of the
\* grid or outside the grid.
Called(sys) == last # None /\ last[1].sys = sys
CalledWith(sys) == Called(sys) /\ Len(last[1].evs) = 1
CalledAt(sys) == CalledWith(sys) /\ last[1].evs[1] \in DOMAIN last[1].pre.grid
CalledOutside(sys) == CalledWith(sys) /\ last[1].evs[1] \notin DOMAIN last[1].pre.grid
at == last[1].evs[1]
pre == last[1].pre
post == board[1].tile_map
Cells == DOMAIN pre.grid

NoFlags(tm) == \A q \in DOMAIN tm.grid : ~tm.grid[q].flag
KindAt(tm, p) == tm.grid[p].tile_type.kind

\* The cells whose covered state the call changed.
Changed == {q \in Cells : pre.grid[q].cover # post.grid[q].cover}

---------------------------------------------------------------------------
\* C1: on a grid with no flagged cell, one reveal of a covered Empty
\* cell uncovers exactly the cell's region of Empty cells and the cells
\* bordering it, and changes the covered state of no other cell.
C1_RevealsWholeRegion ==
  (/\ CalledAt("handle_reveal_event") /\ NoFlags(pre)
   /\ pre.grid[at].cover /\ KindAt(pre, at) = "Empty")
  => LET region == Reach(pre, {at}, {q \in Cells : KindAt(pre, q) = "Empty"})
     IN \A q \in Cells : post.grid[q].cover = (pre.grid[q].cover /\ q \notin region)

---------------------------------------------------------------------------
\* C2: after set_bombs(n) on a freshly created tile map, exactly n tiles are
\* Bomb, and every other tile is Empty iff no bomb is around it and Number(k)
\* iff exactly k > 0 bombs are around it.
C2_SeedCounts ==
  (Called("set_bombs") /\ ~panicked)
  => /\ Cardinality({p \in DOMAIN post.grid : post.grid[p].tile_type = Bomb})
          = game_options.bomb_count
     /\ post.bomb_count = game_options.bomb_count
     /\ \A p \in DOMAIN post.grid :
          post.grid[p].tile_type # Bomb
          => /\ (post.grid[p].tile_type = Empty) <=> (BombsAround(post, p) = 0)
             /\ \A k \in 1 .. 8 :
                  (post.grid[p].tile_type = Number(k)) <=> (BombsAround(post, p) = k)
             /\ post.grid[p].tile_type.kind \in {"Empty", "Number"}

\* A seeding that left a tile with three bombs around it and an Empty tile.
C2_Witness ==
  /\ Called("set_bombs") /\ ~panicked
  /\ \E p \in DOMAIN post.grid : post.grid[p].tile_type = Number(3)
  /\ \E p \in DOMAIN post.grid : post.grid[p].tile_type = Empty

---------------------------------------------------------------------------
---------------------------------------------------------------------------
\* C4: in a reveal call the traversal stops when it uncovers a bomb: the
\* bomb is the last tile the call uncovers.
C4_StopsAtBomb ==
  (Called("handle_reveal_event") /\ last[1].bombs # <<>>)
  => last[1].uncovered[Len(last[1].uncovered)] = last[1].bombs[1]

---------------------------------------------------------------------------
\* The cells a chord at `p` is to uncover: the covered, unflagged cells
\* around p, and what a cascade reaches from those of them that are Empty.
Open(tm, q) == tm.grid[q].cover /\ ~tm.grid[q].flag

ChordTargets(tm, p) ==
  {q \in Reach(tm, {n \in Around(tm, p) : Open(tm, n)},
               {e \in DOMAIN tm.grid : Open(tm, e) /\ KindAt(tm, e) = "Empty"}) :
     Open(tm, q)}

IsChord ==
  /\ CalledAt("handle_reveal_event")
  /\ ~pre.grid[at].cover /\ KindAt(pre, at) = "Number"
  /\ FlagsAround(pre, at) = pre.grid[at].tile_type.count

\* C5: a reveal on an uncovered Number(n) tile with n flagged tiles around it
\* uncovers every covered, unflagged tile around it and what a cascade from
\* the Empty ones among them reaches, and leaves every flagged tile around it
\* covered and flagged.
C5_Chord ==
  IsChord
  => /\ \A q \in ChordTargets(pre, at) : ~post.grid[q].cover
     /\ \A q \in Around(pre, at) :
          pre.grid[q].flag => post.grid[q].cover /\ post.grid[q].flag

\* A chord uncovered an Empty tile next to the Number tile and, through it, a
\* tile that is not next to the Number tile.
C5_Witness ==
  /\ IsChord
  /\ \E q \in Around(pre, at) \cap Changed : KindAt(pre, q) = "Empty"
  /\ \E q \in Changed : ~Adjacent(at, q)
  /\ \E q \in Around(pre, at) : pre.grid[q].flag

---------------------------------------------------------------------------
\* C6: a reveal on an uncovered tile that is Empty, or Number(n) with a
\* number of flagged tiles around it other than n, changes nothing in the
\* grid and sets no next state.
C6_RevealUncoveredNoop ==
  (/\ CalledAt("handle_reveal_event") /\ ~pre.grid[at].cover
   /\ \/ KindAt(pre, at) = "Empty"
      \/ /\ KindAt(pre, at) = "Number"
         /\ FlagsAround(pre, at) # pre.grid[at].tile_type.count)
  => post = pre /\ next_state = None /\ cmds = {}

\* A reveal on an uncovered Number tile with more flags around it than its
\* count, beside a covered, unflagged tile.
C6_Witness ==
  /\ CalledAt("handle_reveal_event") /\ ~pre.grid[at].cover
  /\ KindAt(pre, at) = "Number"
  /\ FlagsAround(pre, at) > pre.grid[at].tile_type.count
  /\ \E q \in Around(pre, at) : Open(pre, q)

---------------------------------------------------------------------------
\* C7: no reveal uncovers a flagged tile.  Every tile flagged before a reveal
\* call is covered and flagged after it; a reveal on a flagged tile changes
\* nothing; and a tile the call uncovers is the clicked tile, a tile around a
\* chord's tile, or next to an Empty tile the call uncovered, so that nothing
\* is reached through a flagged tile.
C7_FlagsBlockReveal ==
  Called("handle_reveal_event")
  => /\ \A q \in Cells : pre.grid[q].flag => post.grid[q].cover /\ post.grid[q].flag
     /\ CalledAt("handle_reveal_event") /\ pre.grid[at].flag
          => post = pre /\ next_state = None
     /\ CalledAt("handle_reveal_event")
          => \A q \in Changed :
               \/ q = at
               \/ IsChord /\ Adjacent(at, q)
               \/ \E e \in Changed : KindAt(pre, e) = "Empty" /\ Adjacent(e, q)

\* A cascade met a flagged Empty tile and left a covered, unflagged tile that
\* the flagged one touches.
C7_Witness ==
  /\ CalledAt("handle_reveal_event") /\ Changed # {}
  /\ \E f \in Cells :
       /\ pre.grid[f].flag /\ KindAt(pre, f) = "Empty"
       /\ \E e \in Changed : KindAt(pre, e) = "Empty" /\ Adjacent(e, f)
       /\ \E q \in Around(pre, f) : Open(post, q)

---------------------------------------------------------------------------
\* C8: a flag request on an uncovered tile changes nothing in the grid.
C8_FlagUncoveredNoop ==
  (CalledAt("handle_flag_event") /\ ~pre.grid[at].cover)
  => post = pre /\ ~post.grid[at].flag

\* A flag request on an uncovered tile, on a grid that has a flagged tile.
C8_Witness ==
  /\ CalledAt("handle_flag_event") /\ ~pre.grid[at].cover
  /\ \E q \in Cells : pre.grid[q].flag

---------------------------------------------------------------------------
\* C9: two flag requests on the same covered tile, one right after the
\* other, leave the grid as it was before the first.
C9_FlagTwiceRestores ==
  [][(/\ CalledAt("handle_flag_event") /\ pre.grid[at].cover
      /\ last' # None /\ last'[1].sys = "handle_flag_event"
      /\ last'[1].evs = last[1].evs)
     => board'[1].tile_map = pre]_vars

\* The second request of such a pair has acted: it took the flag that a
\* request before it had set, on a grid with another flagged tile.
C9_Witness ==
  /\ CalledAt("handle_flag_event") /\ pre.grid[at].cover
  /\ pre.grid[at].flag /\ ~post.grid[at].flag
  /\ \E q \in Cells \ {at} : post.grid[q].flag

---------------------------------------------------------------------------
\* C10: all_revealed holds exactly when every tile that is not a Bomb is
\* uncovered, whatever the covers and flags of the Bomb tiles.
C10_AllRevealed ==
  board # None
  => (all_revealed(board[1])
        <=> \A p \in DOMAIN post.grid :
              post.grid[p].tile_type # Bomb => ~post.grid[p].cover)

\* The board is cleared while its bomb is covered and flagged, in a game
\* that is being played.
C10_Witness ==
  /\ board # None /\ game_state = "Playing"
  /\ all_revealed(board[1])
  /\ \E p \in DOMAIN post.grid :
       post.grid[p].tile_type = Bomb /\ post.grid[p].cover /\ post.grid[p].flag
  /\ \E p \in DOMAIN post.grid : post.grid[p].tile_type.kind = "Number"

---------------------------------------------------------------------------
\* The board of a game that has not been lost: no Bomb tile is uncovered.
NoBombUncovered(tm) ==
  \A p \in DOMAIN tm.grid : tm.grid[p].tile_type = Bomb => tm.grid[p].cover

\* A frame of GameState::Playing comes to its end: the step resets `ran`.
PlayingFrameEnds == game_state = "Playing" /\ ran # {} /\ ran' = {}

\* Reveals have uncovered every tile that is not a Bomb, and there is one.
ClearedByReveals(tm) ==
  /\ \E p \in DOMAIN tm.grid : tm.grid[p].tile_type # Bomb
  /\ \A p \in DOMAIN tm.grid : tm.grid[p].tile_type # Bomb => ~tm.grid[p].cover

\* C11: when reveals have uncovered every tile that is not a Bomb in a game
\* that has not been lost, and check_finished has seen it, the frame ends with
\* the game in Finished and GameResult(true) as the result: the game does not
\* stay in Playing and goes nowhere else.
C11_ClearedBoardWins ==
  [][(/\ PlayingFrameEnds
      /\ board # None /\ ClearedByReveals(board[1].tile_map)
      /\ NoBombUncovered(board[1].tile_map)
      /\ InsertResult(TRUE) \in cmds /\ InsertResult(FALSE) \notin cmds)
     => /\ game_state' = "Finished"
        /\ game_result' = Some(GameResult(TRUE))]_vars

---------------------------------------------------------------------------
\* C12: on the 3x3 board with its one bomb at (2, 2), tile (0, 0) is Empty and
\* tiles (1, 1), (1, 2) and (2, 1) are Number(1); one reveal of (0, 0) on the
\* board as started uncovers the 8 tiles that are not the bomb, leaves the
\* bomb covered, and all_revealed holds.
C12_CornerReveal ==
  (/\ CalledAt("handle_reveal_event") /\ at = <<0, 0>>
   /\ pre = start_game(ScenarioOptions, {<<2, 2>>}))
  => /\ pre.grid[<<0, 0>>].tile_type = Empty
     /\ \A p \in {<<1, 1>>, <<1, 2>>, <<2, 1>>} : pre.grid[p].tile_type = Number(1)
     /\ pre.grid[<<2, 2>>].tile_type = Bomb
     /\ \A p \in Cells : pre.grid[p].cover /\ ~pre.grid[p].flag
     /\ Changed = Cells \ {<<2, 2>>}
     /\ Cardinality(Changed) = 8
     /\ post.grid[<<2, 2>>].cover
     /\ all_revealed(board[1])
     /\ next_state = None

\* The reveal of (0, 0) has run on the board as started.
C12_Witness ==
  /\ CalledAt("handle_reveal_event") /\ at = <<0, 0>>
  /\ pre = start_game(ScenarioOptions, {<<2, 2>>})
  /\ Cardinality(Changed) = 8

---------------------------------------------------------------------------
\* C13: a reveal or a flag request at a position with x >= width or
\* y >= height leaves every tile as it was, sets no next state, queues no
\* command and does not panic.
C13_OutsideNoop ==
  (CalledOutside("handle_reveal_event") \/ CalledOutside("handle_flag_event"))
  => /\ at[1] >= pre.size[1] \/ at[2] >= pre.size[2]
     /\ post = pre
     /\ next_state = None /\ cmds = {} /\ game_state = "Playing"
     /\ ~panicked

\* A reveal one column past the last, in a row of the grid, on a board with a
\* covered tile and a flagged one.
C13_Witness ==
  /\ CalledOutside("handle_reveal_event")
  /\ at[1] = pre.size[1] /\ at[2] < pre.size[2]
  /\ \E q \in Cells : Open(pre, q)
  /\ \E q \in Cells : pre.grid[q].flag

---------------------------------------------------------------------------
\* The positions of a sequence, and whether each occurs in it once.
Range(seq) == {seq[i] : i \in DOMAIN seq}
NoRepeat(seq) == \A i, j \in DOMAIN seq : seq[i] = seq[j] => i = j

\* The tile map of the state, when there is one.
TheMap == board[1].tile_map

\* C14: for every position of the grid, get_neighbors yields the positions
\* (x + dx, y + dy) with dx, dy in -1 .. 1, not both 0, that are in the grid:
\* each once, never the position itself, none outside the grid.
C14_NeighborsExact ==
  board # None
  => \A pos \in DOMAIN TheMap.grid :
       LET ns == get_neighbors(TheMap, pos)
       IN /\ NoRepeat(ns)
          /\ Range(ns) = {q \in DOMAIN TheMap.grid :
                            \E dx, dy \in -1 .. 1 :
                              /\ ~(dx = 0 /\ dy = 0)
                              /\ q = <<pos[1] + dx, pos[2] + dy>>}
          /\ pos \notin Range(ns)
          /\ Range(ns) \subseteq DOMAIN TheMap.grid

\* set_bombs has counted the bombs on a 3x3 grid, whose tiles have 3, 5 and 8
\* neighbours.
C14_Witness ==
  /\ Called("set_bombs") /\ ~panicked /\ TheMap.size = <<3, 3>>
  /\ Len(get_neighbors(TheMap, <<0, 0>>)) = 3
  /\ Len(get_neighbors(TheMap, <<1, 0>>)) = 5
  /\ Len(get_neighbors(TheMap, <<1, 1>>)) = 8
  /\ TheMap.bomb_count > 0

---------------------------------------------------------------------------
\* C15 as stated: on every grid with width >= 1 and height >= 1, get_neighbors
\* yields between 3 and 8 positions for every position of the grid.
C15_ThreeToEight ==
  (board # None /\ TheMap.size[1] >= 1 /\ TheMap.size[2] >= 1)
  => \A pos \in DOMAIN TheMap.grid :
       Len(get_neighbors(TheMap, pos)) \in 3 .. 8

\* C15 as amended: get_neighbors yields at most 8 positions, and at least 3
\* on a grid with width >= 2 and height >= 2; on a grid one tile wide or one
\* tile high it yields 0, 1 or 2.
C15_NeighborCount ==
  board # None
  => \A pos \in DOMAIN TheMap.grid :
       LET n == Len(get_neighbors(TheMap, pos))
       IN /\ n \in 0 .. 8
          /\ (TheMap.size[1] >= 2 /\ TheMap.size[2] >= 2) => n >= 3
          /\ (TheMap.size[1] = 1 \/ TheMap.size[2] = 1) => n <= 2

\* set_bombs has counted the bombs on a grid one tile high, where a tile has
\* a neighbour on either side and none else.
C15_Witness ==
  /\ Called("set_bombs") /\ ~panicked /\ TheMap.size = <<3, 1>>
  /\ Len(get_neighbors(TheMap, <<1, 0>>)) = 2
  /\ Len(get_neighbors(TheMap, <<0, 0>>)) = 1
  /\ TheMap.bomb_count > 0

---------------------------------------------------------------------------
\* C16: in every state of a game, the states after the game has finished
\* among them, every flagged tile is covered.
C16_FlaggedCovered ==
  board # None
  => \A p \in DOMAIN TheMap.grid : TheMap.grid[p].flag => TheMap.grid[p].cover

---------------------------------------------------------------------------
\* A board as start_game leaves it: every tile covered, none flagged.
Fresh(tm) == \A p \in DOMAIN tm.grid : tm.grid[p].cover /\ ~tm.grid[p].flag

\* C17: GameState::Finished is left only by Restart or ReturnToMenu.  While
\* the game is in Finished its board and its result do not change; a step
\* out of Finished goes to Playing or Inactive with the removal of the Board
\* queued, so that Inactive has no board and Playing has a board newly
\* started, unless start_game has panicked.
C17_FinishedIsTerminal ==
  [][game_state = "Finished"
     => \/ /\ game_state' = "Finished"
           /\ board' = board /\ game_result' = game_result
        \/ /\ game_state' \in {"Playing", "Inactive"}
           /\ RemoveBoard \in cmds
           /\ game_result' = game_result
           /\ game_state' = "Inactive" => board' = None
           /\ game_state' = "Playing"
                => IF board' = None THEN panicked'
                   ELSE Fresh(board'[1].tile_map)]_vars

\* A lost game, its bomb uncovered and a tile still flagged, with Restart
\* pressed: the frame is about to end.
C17_Witness ==
  /\ game_state = "Finished" /\ next_state = Some("Playing")
  /\ RemoveBoard \in cmds
  /\ game_result = Some(GameResult(FALSE))
  /\ board # None /\ ~NoBombUncovered(TheMap)
  /\ \E p \in DOMAIN TheMap.grid : TheMap.grid[p].flag

---------------------------------------------------------------------------
\* C18: a grid of width 0 or height 0 is not created: with such a size in the
\* options there is no board.
C18_ZeroSizeRejected ==
  (game_options.size[1] = 0 \/ game_options.size[2] = 0) => board = None

---------------------------------------------------------------------------
\* C19: set_bombs with a bomb count above the number of tiles is rejected, by
\* its assertion, and places no bomb: the tile map is as it was, every tile
\* Empty.
C19_TooManyBombs ==
  (/\ Called("set_bombs")
   /\ game_options.bomb_count > game_options.size[1] * game_options.size[2])
  => /\ panicked
     /\ post = pre
     /\ \A p \in DOMAIN post.grid : post.grid[p].tile_type = Empty
     /\ post.bomb_count = 0

\* set_bombs was called with one bomb more than the tiles of a 2x2 grid.
C19_Witness ==
  /\ Called("set_bombs") /\ panicked
  /\ game_options.size = <<2, 2>> /\ game_options.bomb_count = 5

---------------------------------------------------------------------------
\* C20: with safe start on and a bomb count the grid has room for, the start
\* of a game does not fail, whether or not the seeded grid has an Empty tile.
C20_SafeStartNeverFails ==
  (/\ game_options.safe_start
   /\ game_options.size[1] * game_options.size[2] > 0
   /\ game_options.bomb_count <= game_options.size[1] * game_options.size[2])
  => ~panicked

---------------------------------------------------------------------------
\* Safe start: the end of start_game on a grid seeded and covered, and the
\* reveals of the game that follows.
SafeMaxX == 3
SafeMaxY == 2
SafeMaxBombs == 2

\* tile.cover.replace(new_cover): the new cover entity takes the place of the
\* old one, which is despawned; the tile has a cover before and after.
cover_replace(tm, position) == [tm EXCEPT !.grid[position].cover = TRUE]

SafeInit ==
  /\ game_options \in {o \in [size : (1 .. SafeMaxX) \X (1 .. SafeMaxY),
                              bomb_count : 0 .. SafeMaxBombs,
                              safe_start : {TRUE}] :
                         o.bomb_count <= o.size[1] * o.size[2]}
  /\ board \in {Some([tile_map |-> tm]) : tm \in Started(game_options)}
  /\ game_state = "Playing"
  /\ next_state = None
  /\ game_result = None
  /\ ran = {}
  /\ read = 0
  /\ cmds = {}
  /\ panicked = FALSE
  /\ last = None

\* if game_options.safe_start { ... }: find_empty_tile().unwrap() and the
\* replacement of the cover of the tile found.
SafeStart ==
  /\ last = None /\ ~panicked
  /\ IF EmptyTiles(board[1].tile_map) = {}
     THEN /\ panicked' = TRUE /\ board' = board
          /\ last' = Some([sys |-> "start_game", evs |-> <<>>,
                           pre |-> board[1].tile_map,
                           uncovered |-> <<>>, bombs |-> <<>>])
     ELSE /\ panicked' = FALSE
          /\ \E position \in EmptyTiles(board[1].tile_map) :
               /\ board' = Some([board[1] EXCEPT
                                   !.tile_map = cover_replace(board[1].tile_map, position)])
               /\ last' = Some([sys |-> "start_game", evs |-> <<position>>,
                                pre |-> board[1].tile_map,
                                uncovered |-> <<>>, bombs |-> <<>>])
  /\ UNCHANGED <<game_options, game_state, next_state, game_result, ran, read, cmds>>

\* The reveals of the game that was started.
SafeReveal == last # None /\ ~panicked /\ RevealCall

SafeNext ==
  \/ SafeStart
  \/ SafeReveal

SpecSafe == SafeInit /\ [][SafeNext]_vars

\* C21: when start_game has chosen the safe-start tile, that tile is
\* uncovered in the tile map and every other tile is still covered; and a
\* reveal of that tile right after the start is a reveal of an uncovered
\* Empty tile: it changes nothing on the board.
C21_SafeTileUncovered ==
  [][/\ (last = None /\ ~panicked')
        => \A p \in DOMAIN board'[1].tile_map.grid :
             board'[1].tile_map.grid[p].cover = (p # last'[1].evs[1])
     /\ (/\ Called("start_game") /\ ~panicked
         /\ last'[1].sys = "handle_reveal_event"
         /\ last'[1].evs = <<last[1].evs[1]>>)
        => board' = board]_vars

\* C22: the tile start_game chooses for the safe start is Empty: it is not a
\* Bomb and no tile around it is a Bomb, whatever the placement of the bombs.
C22_SafeTileEmpty ==
  (CalledWith("start_game") /\ ~panicked)
  => /\ post.grid[at].tile_type = Empty
     /\ ~is_bomb(post.grid[at])
     /\ BombsAround(post, at) = 0
     /\ post.bomb_count = game_options.bomb_count

\* A safe start on a 3x2 grid with two bombs, where tiles that are not Bomb
\* and not Empty were there to choose as well.
C22_Witness ==
  /\ CalledWith("start_game") /\ ~panicked
  /\ post.size = <<3, 2>> /\ post.bomb_count = 2
  /\ \E p \in DOMAIN post.grid : post.grid[p].tile_type.kind = "Number"

---------------------------------------------------------------------------
\* options.rs: the options screen.  The buttons are pressed one in a frame;
\* the rows, columns and bomb-count buttons are followed up to OptMaxSize and
\* OptMaxBombs, and a game is started when the grid has at most MaxTiles tiles.
OptMaxSize == 10
OptMaxBombs == 11

\* u32::saturating_add and saturating_sub of 1.  The upper end, u32::MAX, is
\* out of the reach of the buttons within OptMaxSize and OptMaxBombs; the lower
\* end is 0.
saturating_add(v) == v + 1
saturating_sub(v) == IF v = 0 THEN 0 ELSE v - 1

\* enum Preset, Preset::size and Preset::bomb_count.
Preset == [Beginner |-> [size |-> <<9, 9>>, bomb_count |-> 10],
           Intermediate |-> [size |-> <<16, 16>>, bomb_count |-> 40],
           Expert |-> [size |-> <<30, 16>>, bomb_count |-> 99]]

\* impl Default for GameOptions.
GameOptions_default ==
  [size |-> Preset.Beginner.size, bomb_count |-> Preset.Beginner.bomb_count,
   safe_start |-> TRUE]

OptionsInit ==
  /\ game_options = GameOptions_default
  /\ board = None
  /\ game_state = "Options"
  /\ next_state = None
  /\ game_result = None
  /\ ran = {}
  /\ read = 0
  /\ cmds = {}
  /\ panicked = FALSE
  /\ last = None

OnOptions == ~panicked /\ game_state = "Options" /\ next_state = None

ChangeRows ==
  /\ OnOptions
  /\ \E increase \in BOOLEAN :
       /\ increase => game_options.size[2] < OptMaxSize
       /\ game_options' =
            [game_options EXCEPT !.size[2] = IF increase THEN saturating_add(@)
                                             ELSE saturating_sub(@)]
  /\ UNCHANGED <<board, game_state, next_state, game_result, ran, read, cmds, panicked, last>>

ChangeColumns ==
  /\ OnOptions
  /\ \E increase \in BOOLEAN :
       /\ increase => game_options.size[1] < OptMaxSize
       /\ game_options' =
            [game_options EXCEPT !.size[1] = IF increase THEN saturating_add(@)
                                             ELSE saturating_sub(@)]
  /\ UNCHANGED <<board, game_state, next_state, game_result, ran, read, cmds, panicked, last>>

ChangeBombCount ==
  /\ OnOptions
  /\ \E increase \in BOOLEAN :
       /\ increase => game_options.bomb_count < OptMaxBombs
       /\ game_options' =
            [game_options EXCEPT !.bomb_count = IF increase THEN saturating_add(@)
                                                ELSE saturating_sub(@)]
  /\ UNCHANGED <<board, game_state, next_state, game_result, ran, read, cmds, panicked, last>>

\* SettingsButtonAction::Preset: the press of the preset that is selected
\* already changes nothing.
PresetButton ==
  /\ OnOptions
  /\ \E preset \in DOMAIN Preset :
       game_options' = [game_options EXCEPT !.size = Preset[preset].size,
                                            !.bomb_count = Preset[preset].bomb_count]
  /\ UNCHANGED <<board, game_state, next_state, game_result, ran, read, cmds, panicked, last>>

SafeStartToggle ==
  /\ OnOptions
  /\ game_options' = [game_options EXCEPT !.safe_start = ~@]
  /\ UNCHANGED <<board, game_state, next_state, game_result, ran, read, cmds, panicked, last>>

\* SettingsButtonAction::StartGame, on a grid within the bound.
OptionsStartGame ==
  /\ game_options.size[1] * game_options.size[2] <= MaxTiles
  /\ StartGame

OptionsNext ==
  \/ ChangeRows
  \/ ChangeColumns
  \/ ChangeBombCount
  \/ PresetButton
  \/ SafeStartToggle
  \/ OptionsStartGame
  \/ EnterPlaying

SpecOptions == OptionsInit /\ [][OptionsNext]_vars

\* C23: whatever buttons of the options screen were pressed before the game
\* was started, the grid the game is started with has a width of at least 1,
\* a height of at least 1, and a bomb count from 0 to width * height.
C23_StartedGridValid ==
  (game_state = "Playing" /\ board # None)
  => /\ TheMap.size[1] >= 1
     /\ TheMap.size[2] >= 1
     /\ TheMap.bomb_count >= 0
     /\ TheMap.bomb_count <= TheMap.size[1] * TheMap.size[2]

---------------------------------------------------------------------------
\* One frame of requests.  handle_mouse_input sends a TileRevealed for each
\* left press and a TileFlagged for each right press it reads; the two kinds
\* of event have a queue each, and handle_reveal_event and handle_flag_event
\* each read their own queue, in an order between the two systems that the
\* schedule leaves open.
ReqX == 3
ReqY == 1
ReqBombs == 1
ReqMaxEvents == 2

Requests(tm) ==
  UNION {[1 .. n -> [kind : {"TileRevealed", "TileFlagged"},
                     position : DOMAIN tm.grid]] : n \in 1 .. ReqMaxEvents}

\* The positions of the events of one kind, in the order sent.
RECURSIVE EventsOf(_, _)
EventsOf(kind, reqs) ==
  IF reqs = <<>> THEN <<>>
  ELSE IF Head(reqs).kind = kind
       THEN <<Head(reqs).position>> \o EventsOf(kind, Tail(reqs))
       ELSE EventsOf(kind, Tail(reqs))

\* The two handlers of a frame, `first` the one that the schedule runs first.
RunHandlers(tm, reqs, first) ==
  IF first = "handle_reveal_event"
  THEN LET r == handle_reveal_event(tm, EventsOf("TileRevealed", reqs))
       IN [tile_map |-> handle_flag_event(r.tile_map, EventsOf("TileFlagged", reqs)),
           uncovered |-> r.uncovered, bombs |-> r.bombs]
  ELSE handle_reveal_event(handle_flag_event(tm, EventsOf("TileFlagged", reqs)),
                           EventsOf("TileRevealed", reqs))

RequestsInit ==
  /\ game_options = [size |-> <<ReqX, ReqY>>, bomb_count |-> ReqBombs,
                     safe_start |-> FALSE]
  /\ board \in {Some([tile_map |-> tm]) : tm \in Started(game_options)}
  /\ game_state = "Playing"
  /\ next_state = None
  /\ game_result = None
  /\ ran = {}
  /\ read = 0
  /\ cmds = {}
  /\ panicked = FALSE
  /\ last = None

Frame ==
  /\ next_state = None
  /\ \E reqs \in Requests(board[1].tile_map) :
       \E first \in {"handle_reveal_event", "handle_flag_event"} :
         LET r == RunHandlers(board[1].tile_map, reqs, first)
         IN /\ board' = Some([board[1] EXCEPT !.tile_map = r.tile_map])
            /\ cmds' = RevealOutcome(r, None, {}).cmds
            /\ next_state' = RevealOutcome(r, None, {}).next_state
            /\ last' = Some([sys |-> "frame", evs |-> reqs,
                             pre |-> board[1].tile_map,
                             uncovered |-> r.uncovered, bombs |-> r.bombs])
  /\ UNCHANGED <<game_options, game_state, game_result, ran, read, panicked>>

SpecRequests == RequestsInit /\ [][Frame]_vars

\* The requests applied one at a time in the order issued, each to
\* completion on the tile map left by the ones before it.
RECURSIVE OneAtATime(_, _)
OneAtATime(tm, reqs) ==
  IF reqs = <<>> THEN tm
  ELSE OneAtATime(IF Head(reqs).kind = "TileRevealed"
                  THEN handle_reveal_event(tm, <<Head(reqs).position>>).tile_map
                  ELSE handle_flag_event(tm, <<Head(reqs).position>>),
                  Tail(reqs))

\* C24: the tile map a frame leaves is the one its requests give when they are
\* applied one at a time in the order issued, a chord among them judged on the
\* tile map left by the requests before it; and it is the same whichever of
\* handle_reveal_event and handle_flag_event runs first.
C24_RequestsInOrder ==
  Called("frame")
  => /\ post = OneAtATime(pre, last[1].evs)
     /\ RunHandlers(pre, last[1].evs, "handle_reveal_event").tile_map
          = RunHandlers(pre, last[1].evs, "handle_flag_event").tile_map

\* The two ways C24 fails.  A left and a right press on the same covered tile
\* in one frame: the tile ends uncovered or flagged with the order of the
\* handlers.  Two left presses on a covered Number tile that has its count of
\* flags around it: the second is not taken as a chord.
C24_OrderOfHandlersShows ==
  /\ Called("frame") /\ Len(last[1].evs) = 2
  /\ last[1].evs[1].kind = "TileRevealed" /\ last[1].evs[2].kind = "TileFlagged"
  /\ last[1].evs[1].position = last[1].evs[2].position
  /\ pre.grid[last[1].evs[1].position].cover
  /\ RunHandlers(pre, last[1].evs, "handle_reveal_event").tile_map
       # RunHandlers(pre, last[1].evs, "handle_flag_event").tile_map

C24_ChordOnEarlierGrid ==
  /\ Called("frame") /\ Len(last[1].evs) = 2
  /\ last[1].evs[1].kind = "TileRevealed" /\ last[1].evs[2] = last[1].evs[1]
  /\ pre.grid[last[1].evs[1].position].cover
  /\ post # OneAtATime(pre, last[1].evs)
  /\ Changed = {last[1].evs[1].position}

---------------------------------------------------------------------------
---------------------------------------------------------------------------
\* C26: a frame of Playing in which a reveal has uncovered a Bomb ends with
\* the game in Finished and GameResult(false) as the result, whatever else
\* was handled in the frame.
C26_BombEndsGame ==
  [][(PlayingFrameEnds /\ InsertResult(FALSE) \in cmds)
     => /\ game_state' = "Finished"
        /\ game_result' = Some(GameResult(FALSE))]_vars

\* C26, its second half: no frame of Playing or Paused begins on a board with
\* an uncovered Bomb.
C26_NoPlayOnUncoveredBomb ==
  (/\ game_state \in {"Playing", "Paused"} /\ board # None
   /\ ran = {} /\ next_state = None /\ cmds = {})
  => NoBombUncovered(TheMap)

---------------------------------------------------------------------------
\* C27: one reveal of a covered, unflagged Number tile takes the cover of
\* that tile and of no other: the tile is the one position the call uncovers,
\* nothing else of the tile map changes, and the game goes on.
C27_NumberRevealsItself ==
  (/\ CalledAt("handle_reveal_event")
   /\ pre.grid[at].cover /\ ~pre.grid[at].flag /\ KindAt(pre, at) = "Number")
  => /\ Changed = {at}
     /\ last[1].uncovered = <<at>>
     /\ post = [pre EXCEPT !.grid[at].cover = FALSE]
     /\ next_state = None /\ cmds = {}

\* A Number tile was revealed next to a covered, unflagged tile that is not a
\* Bomb, with another tile of the grid flagged.
C27_Witness ==
  /\ CalledAt("handle_reveal_event")
  /\ pre.grid[at].cover /\ ~pre.grid[at].flag /\ KindAt(pre, at) = "Number"
  /\ \E q \in Around(pre, at) : Open(pre, q) /\ KindAt(pre, q) # "Bomb"
  /\ ~NoFlags(pre)

---------------------------------------------------------------------------
\* The kinds of the tiles of a tile map, with its size and its bomb count.
Kinds(tm) == [size |-> tm.size, bomb_count |-> tm.bomb_count,
              tile_type |-> [p \in DOMAIN tm.grid |-> tm.grid[p].tile_type]]

\* C28: a tile map is seeded once, when start_game creates it: as long as the
\* Board is not removed, no step changes the kind of a tile, the steps of the
\* handlers, of a pause, of Continue and of game_finished among them; and a
\* board that comes into being is a seeded one with nothing uncovered.
C28_KindsFixed ==
  [][/\ (board # None /\ RemoveBoard \notin cmds)
        => /\ board' # None
           /\ Kinds(board'[1].tile_map) = Kinds(board[1].tile_map)
     /\ (board' # None /\ (board = None \/ RemoveBoard \in cmds))
        => /\ game_state' = "Playing"
           /\ Fresh(board'[1].tile_map)
           /\ Cardinality({p \in DOMAIN board'[1].tile_map.grid :
                             is_bomb(board'[1].tile_map.grid[p])})
                = game_options.bomb_count]_vars

\* Continue was pressed on the pause overlay of a game with a bomb, a flag and
\* an uncovered tile: Playing is about to be entered with the Board in place.
C28_Witness ==
  /\ game_state = "Paused" /\ next_state = Some("Playing")
  /\ RemoveBoard \notin cmds
  /\ board # None /\ TheMap.bomb_count = 1
  /\ \E p \in DOMAIN TheMap.grid : TheMap.grid[p].flag
  /\ \E p \in DOMAIN TheMap.grid : ~TheMap.grid[p].cover

---------------------------------------------------------------------------
\* C30: one flag request on a covered tile changes the flag of that tile and
\* nothing else: the cover of every tile and the flag of every other tile
\* stay, and the call asks for no change of the game state.
C30_FlagChangesOneFlag ==
  (CalledAt("handle_flag_event") /\ pre.grid[at].cover)
  => /\ post = [pre EXCEPT !.grid[at].flag = ~pre.grid[at].flag]
     /\ \A q \in Cells : post.grid[q].cover = pre.grid[q].cover
     /\ \A q \in Cells \ {at} : post.grid[q].flag = pre.grid[q].flag
     /\ game_state = "Playing" /\ next_state = None /\ cmds = {}

\* A flag was taken off a covered tile while another tile kept its flag and a
\* third one was uncovered.
C30_Witness ==
  /\ CalledAt("handle_flag_event")
  /\ pre.grid[at].cover /\ pre.grid[at].flag /\ ~post.grid[at].flag
  /\ \E q \in Cells \ {at} : pre.grid[q].flag
  /\ \E q \in Cells : ~pre.grid[q].cover

---------------------------------------------------------------------------
\* Restart was pressed on the finished overlay and the frame ends.
RestartStep ==
  /\ game_state = "Finished" /\ next_state = Some("Playing")
  /\ RemoveBoard \in cmds
  /\ board # None /\ ~Fresh(TheMap)

\* The board is one that start_game has just made for the options.
NewGame(b) ==
  /\ b # None
  /\ b[1].tile_map.size = game_options.size
  /\ b[1].tile_map.bomb_count = game_options.bomb_count
  /\ Cardinality({p \in DOMAIN b[1].tile_map.grid : is_bomb(b[1].tile_map.grid[p])})
       = game_options.bomb_count
  /\ \A p \in DOMAIN b[1].tile_map.grid : ~b[1].tile_map.grid[p].flag
  /\ Cardinality({p \in DOMAIN b[1].tile_map.grid : ~b[1].tile_map.grid[p].cover})
       <= IF game_options.safe_start THEN 1 ELSE 0

\* C29: a restart from Finished takes the game to Playing on a board newly
\* made for the options: of the configured size and bomb count, no tile
\* flagged, every tile covered but for the safe-start tile when safe start is
\* on; nothing of the old board is left.
C29_RestartStartsAnew ==
  [][RestartStep
     => /\ game_state' = "Playing"
        /\ ~panicked'
        /\ NewGame(board')]_vars

\* C29 without the restarts in which start_game panics: such a restart is
\* the one way the claim fails.
C29_RestartUnlessPanic ==
  [][RestartStep
     => /\ game_state' = "Playing"
        /\ panicked' \/ NewGame(board')
        /\ panicked' => board' = None /\ game_options.safe_start]_vars

---------------------------------------------------------------------------
\* C31: one reveal of a covered tile that is not a Bomb uncovers no Bomb and
\* does not end the game as lost, whatever tiles are flagged: the call
\* expands Empty tiles only, and no tile around an Empty tile is a Bomb.
C31_SafeRevealStaysSafe ==
  (/\ CalledAt("handle_reveal_event")
   /\ pre.grid[at].cover /\ KindAt(pre, at) # "Bomb")
  => /\ last[1].bombs = <<>>
     /\ \A q \in Changed : KindAt(pre, q) # "Bomb"
     /\ \A q \in Cells : KindAt(pre, q) = "Bomb" => post.grid[q].cover = pre.grid[q].cover
     /\ next_state = None /\ cmds = {}
     /\ \A q \in Cells : KindAt(pre, q) = "Empty" => BombsAround(pre, q) = 0

\* A cascade from a covered Empty tile ran up to the tiles around a covered
\* Bomb while another tile was flagged.
C31_Witness ==
  /\ CalledAt("handle_reveal_event")
  /\ pre.grid[at].cover /\ ~pre.grid[at].flag /\ KindAt(pre, at) = "Empty"
  /\ Cardinality(Changed) >= 3
  /\ \E q \in Changed : BombsAround(pre, q) > 0
  /\ \E q \in Cells : KindAt(pre, q) = "Bomb" /\ post.grid[q].cover
  /\ ~NoFlags(pre)

---------------------------------------------------------------------------
\* C32: when a frame of Playing ends with the game going to Finished and
\* GameResult(true) as the result, no Bomb of the board has been uncovered:
\* a won game has no Bomb uncovered by a reveal, a frame in which a Bomb is
\* uncovered and check_finished runs among the cases.
C32_WonWithoutBomb ==
  [][(/\ PlayingFrameEnds /\ board # None
      /\ game_state' = "Finished"
      /\ game_result' = Some(GameResult(TRUE)))
     => NoBombUncovered(board[1].tile_map)]_vars

\* C32 for the frames in which no Bomb is uncovered: the Bomb of a won game
\* may have been uncovered in an earlier frame, when a pause took the place
\* of the loss.
C32_WonAfterPausedLoss ==
  [][(/\ PlayingFrameEnds /\ board # None
      /\ InsertResult(FALSE) \notin cmds
      /\ game_state' = "Finished"
      /\ game_result' = Some(GameResult(TRUE)))
     => NoBombUncovered(board[1].tile_map)]_vars

---------------------------------------------------------------------------
\* start_game has just made the board of the next state, for options with a
\* size of at least 1x1 and a bomb count the grid has room for.
SetupDone ==
  /\ board' # None /\ (board = None \/ RemoveBoard \in cmds)
  /\ game_state' = "Playing"
  /\ game_options.size[1] >= 1 /\ game_options.size[2] >= 1
  /\ game_options.bomb_count <= game_options.size[1] * game_options.size[2]

\* C33: right after the setup of a game, for every such size and bomb count,
\* all_revealed is false: check_finished cannot declare the game won before
\* a reveal has uncovered something.
C33_NotWonAtStart ==
  [][SetupDone => ~all_revealed(board'[1])]_vars

\* C33 but for the grids that are all Bombs.
C33_NotWonAtStartWithRoom ==
  [][SetupDone
     => \/ ~all_revealed(board'[1])
        \/ game_options.bomb_count = game_options.size[1] * game_options.size[2]]_vars

---------------------------------------------------------------------------
\* The tiles of a tile map that have no cover.
Uncovered(tm) == {p \in DOMAIN tm.grid : ~tm.grid[p].cover}

\* C34: as long as the Board is not removed, no step gives a tile its cover
\* back: the uncovered tiles of the board before a step are uncovered after
\* it, the steps of the handlers, of a pause, of Continue and of
\* game_finished among them.
C34_CoverMonotone ==
  [][(board # None /\ RemoveBoard \notin cmds)
     => /\ board' # None
        /\ Uncovered(board[1].tile_map) \subseteq Uncovered(board'[1].tile_map)]_vars

\* A game was won with tiles uncovered by reveals and its Bomb covered:
\* Finished is about to be entered.
C34_Witness ==
  /\ game_state = "Playing" /\ next_state = Some("Finished")
  /\ "check_finished" \in ran /\ board # None
  /\ Cardinality(Uncovered(TheMap)) >= 2
  /\ TheMap.bomb_count = 1 /\ NoBombUncovered(TheMap)

---------------------------------------------------------------------------
\* C35: the step that enters Finished, after a win or a loss, leaves every
\* Bomb tile uncovered, a flagged one as well, and leaves the cover and the
\* flag of every tile that is not a Bomb as they were.
C35_FinishUncoversBombs ==
  [][(game_state # "Finished" /\ game_state' = "Finished")
     => /\ board # None /\ board' # None
        /\ Kinds(board'[1].tile_map) = Kinds(board[1].tile_map)
        /\ \A p \in DOMAIN board[1].tile_map.grid :
             IF is_bomb(board[1].tile_map.grid[p])
             THEN ~board'[1].tile_map.grid[p].cover
             ELSE /\ board'[1].tile_map.grid[p].cover = board[1].tile_map.grid[p].cover
                  /\ board'[1].tile_map.grid[p].flag = board[1].tile_map.grid[p].flag]_vars

\* A game was won with its Bomb flagged and covered: Finished is about to be
\* entered.
C35_Witness ==
  /\ game_state = "Playing" /\ next_state = Some("Finished")
  /\ "check_finished" \in ran /\ board # None
  /\ InsertResult(TRUE) \in cmds
  /\ \E p \in DOMAIN TheMap.grid :
       is_bomb(TheMap.grid[p]) /\ TheMap.grid[p].flag /\ TheMap.grid[p].cover
  /\ \E p \in DOMAIN TheMap.grid : ~is_bomb(TheMap.grid[p])

---------------------------------------------------------------------------
\* C36: from the step that enters Paused to the step that enters Playing
\* after Continue, the board stays as it is, the kind, the cover and the flag
\* of every tile: Paused is entered and left for Playing with the board
\* unchanged, and no step in Paused changes it.
C36_PauseKeepsGame ==
  [][/\ (game_state = "Paused" /\ game_state' \in {"Paused", "Playing"})
        => board # None /\ board' = board /\ ~panicked'
     /\ (game_state = "Playing" /\ game_state' = "Paused")
        => board # None /\ board' = board]_vars

\* Continue was pressed on the pause overlay of a game in which two tiles are
\* uncovered and the Bomb is flagged.
C36_Witness ==
  /\ game_state = "Paused" /\ next_state = Some("Playing")
  /\ RemoveBoard \notin cmds /\ board # None
  /\ Cardinality(Uncovered(TheMap)) >= 2
  /\ \E p \in DOMAIN TheMap.grid : is_bomb(TheMap.grid[p]) /\ TheMap.grid[p].flag

====
